---- MODULE Spec2Model ----
(***************************************************************************)
(* Model of tools/lexmount_browser.py: the Browser client, its Sessions    *)
(* factory and the Session entity.  Strings are sequences of one-character *)
(* strings, so that URL joining and URL parsing are computed.              *)
(***************************************************************************)
EXTENDS Integers, Sequences, FiniteSets, TLC

(* api_key, base_url: the fields of the Browser.                          *)
(* json_error_is_request_exception: whether the installed requests raises *)
(*   from response.json() an error that is a RequestException (it is one  *)
(*   from requests 2.27 on, and a plain ValueError before).               *)
(* sessions: the Session objects constructed so far, in order.            *)
(* op, reqs, resps, result: the last call, the HTTP requests it issued,   *)
(*   the responses it received, and what it returned or raised.           *)
VARIABLES api_key, base_url, json_error_is_request_exception,
          sessions, op, reqs, resps, result

vars == <<api_key, base_url, json_error_is_request_exception,
          sessions, op, reqs, resps, result>>

(* Number of Session objects the model lets the program construct. *)
MaxSessions == 1

----------------------------------------------------------------------------
(* str helpers *)

(* str.find(c), 1-based, 0 when c does not occur *)
Find(s, c) ==
  IF \E i \in 1..Len(s) : s[i] = c
  THEN CHOOSE i \in 1..Len(s) : s[i] = c /\ \A j \in 1..(i-1) : s[j] # c
  ELSE 0

(* str.find(c, start) *)
FindFrom(s, c, start) ==
  IF \E i \in start..Len(s) : s[i] = c
  THEN CHOOSE i \in start..Len(s) : s[i] = c /\ \A j \in start..(i-1) : s[j] # c
  ELSE 0

(* str.rfind(c) *)
RFind(s, c) ==
  IF \E i \in 1..Len(s) : s[i] = c
  THEN CHOOSE i \in 1..Len(s) : s[i] = c /\ \A j \in (i+1)..Len(s) : s[j] # c
  ELSE 0

Prefix(s, n) == SubSeq(s, 1, n)

Suffix(s, n) == SubSeq(s, n, Len(s))

RECURSIVE rstrip(_, _)
rstrip(s, c) ==
  IF Len(s) > 0 /\ s[Len(s)] = c THEN rstrip(Prefix(s, Len(s) - 1), c) ELSE s

----------------------------------------------------------------------------
(* urllib.parse, as far as the client uses it *)

SchemeChars ==
  {"a","b","c","d","e","f","g","h","i","j","k","l","m","n","o","p","q","r",
   "s","t","u","v","w","x","y","z","0","1","2","3","4","5","6","7","8","9",
   "+","-","."}

Alpha == SchemeChars \ {"0","1","2","3","4","5","6","7","8","9","+","-","."}

uses_params ==
  { <<>>, <<"f","t","p">>, <<"h","t","t","p">>, <<"h","t","t","p","s">>,
    <<"s","f","t","p">>, <<"t","e","l">> }

uses_relative ==
  { <<>>, <<"f","t","p">>, <<"h","t","t","p">>, <<"h","t","t","p","s">>,
    <<"s","f","t","p">> }

(* urlsplit, step 1: "<scheme>:" is split off when the text before the    *)
(* first colon starts with a letter and holds scheme characters only.     *)
SplitScheme(url) ==
  LET i == Find(url, ":")
  IN IF i > 1 /\ url[1] \in Alpha /\ \A j \in 1..(i-1) : url[j] \in SchemeChars
     THEN [scheme |-> Prefix(url, i - 1), rest |-> Suffix(url, i + 1)]
     ELSE [scheme |-> <<>>, rest |-> url]

(* urlsplit, step 2 (_splitnetloc): after "//" the netloc runs to the     *)
(* first of "/", "?", "#".                                                *)
SplitNetloc(url) ==
  IF Len(url) >= 2 /\ url[1] = "/" /\ url[2] = "/"
  THEN LET stops == {i \in 3..Len(url) : url[i] \in {"/", "?", "#"}}
           delim == IF stops = {} THEN Len(url) + 1
                    ELSE CHOOSE i \in stops : \A j \in stops : i <= j
       IN [netloc |-> SubSeq(url, 3, delim - 1), rest |-> Suffix(url, delim)]
  ELSE [netloc |-> <<>>, rest |-> url]

(* url.split(c, 1) when c occurs: head and tail around the first c. *)
SplitFirst(url, c) ==
  LET i == Find(url, c)
  IN IF i > 0 THEN [head |-> Prefix(url, i - 1), tail |-> Suffix(url, i + 1)]
     ELSE [head |-> url, tail |-> <<>>]

(* _splitparams: ";params" of the last path segment. *)
SplitParams(url) ==
  LET slash == RFind(url, "/")
      i == IF slash > 0 THEN FindFrom(url, ";", slash) ELSE Find(url, ";")
  IN IF i > 0 THEN [head |-> Prefix(url, i - 1), tail |-> Suffix(url, i + 1)]
     ELSE [head |-> url, tail |-> <<>>]

(* urlparse without the "?query" split: the query stays in the path *)
urlparse_keeps_query(url) ==
  LET s == SplitScheme(url)
      n == SplitNetloc(s.rest)
      f == SplitFirst(n.rest, "#")
  IN [scheme |-> s.scheme, netloc |-> n.netloc, path |-> f.head,
      params |-> <<>>, query |-> <<>>, fragment |-> f.tail]

(* urlparse: urlsplit (scheme, netloc, "#fragment", "?query"), then       *)
(* ";params" for the schemes of uses_params.                              *)
urlparse(url) ==
  LET s == SplitScheme(url)
      n == SplitNetloc(s.rest)
      f == SplitFirst(n.rest, "#")
      q == SplitFirst(f.head, "?")
      p == IF s.scheme \in uses_params /\ Find(q.head, ";") > 0
           THEN SplitParams(q.head)
           ELSE [head |-> q.head, tail |-> <<>>]
  IN [scheme |-> s.scheme, netloc |-> n.netloc, path |-> p.head,
      params |-> p.tail, query |-> q.tail, fragment |-> f.tail]

(* plain concatenation in place of urljoin *)
urljoin_concat(base, path) == base \o path

(* urljoin(base, path) for a path that starts with "/" and has no dot     *)
(* segments, query or fragment: the base contributes scheme and netloc.   *)
urljoin(base, path) ==
  LET b == urlparse(base)
  IN IF b.scheme \notin uses_relative THEN path
     ELSE (IF b.scheme # <<>> THEN b.scheme \o <<":">> ELSE <<>>)
          \o (IF b.netloc # <<>> THEN <<"/", "/">> \o b.netloc ELSE <<>>)
          \o path

----------------------------------------------------------------------------
(* JSON values and HTTP responses the server may send *)

Absent == [t |-> "absent", v |-> <<>>]

None == [t |-> "null", v |-> <<>>]

Num == [t |-> "num", v |-> <<"1">>]

Str(s) == [t |-> "str", v |-> s]

(* "is not None" in place of truthiness: the empty string passes *)
Truthy_not_none(x) == x.t \notin {"absent", "null"}

(* Python truthiness of a value read with dict.get *)
Truthy(x) == (x.t = "str" /\ x.v # <<>>) \/ x.t = "num"

NotJson == [kind |-> "text", session_id |-> Absent, webSocketDebuggerUrl |-> Absent]

JsonArray == [kind |-> "array", session_id |-> Absent, webSocketDebuggerUrl |-> Absent]

Obj(sid, ws) == [kind |-> "object", session_id |-> sid, webSocketDebuggerUrl |-> ws]

NoBody == [kind |-> "none", session_id |-> Absent, webSocketDebuggerUrl |-> Absent]

SessionIds == { <<"s","1">>, <<"s","2">> }

ProjectIds == { <<"p","1">>, <<"p","2">> }

ApiKeys == { <<"k">> }

(* Base URLs given to Browser(...): bare host, trailing slashes, a path    *)
(* prefix after the host.                                                  *)
BaseUrl(host, prefix, slashes) ==
  <<"h","t","t","p","s",":","/","/">> \o host \o prefix \o slashes

Hosts == { <<"h">> }

Prefixes == { <<>>, <<"/","a","p","i">> }

Slashes == { <<>>, <<"/">> }

RawBaseUrls == { BaseUrl(h, p, s) : h \in Hosts, p \in Prefixes, s \in Slashes }

(* WebSocket debugger URLs, built from their components. *)
WsUrl(netloc, path, query, fragment) ==
  <<"w","s",":","/","/">> \o netloc \o path
    \o (IF query # <<>> THEN <<"?">> \o query ELSE <<>>)
    \o (IF fragment # <<>> THEN <<"#">> \o fragment ELSE <<>>)

WsNetlocs == { <<"h",":","1">> }

WsPaths == { <<>>, <<"/","d","/","p",";","x">> }

WsQueries == { <<>>, <<"q">> }

WsFragments == { <<>>, <<"f">> }

DebuggerUrls ==
  { WsUrl(n, p, q, f) : n \in WsNetlocs, p \in WsPaths, q \in WsQueries, f \in WsFragments }

(* status 0: no response at all (connection refused, DNS, timeout). *)
NetworkError == [status |-> 0, body |-> NoBody]

(* What a server may answer: nothing, an empty 204, an error page, or a   *)
(* 200 or a 300 (Multiple Choices, which requests does not follow) with a *)
(* body.                                                                  *)
Answers(bodies200, bodies300) ==
  {NetworkError}
    \cup { [status |-> s, body |-> NotJson] : s \in {204, 404, 500} }
    \cup { [status |-> 200, body |-> b] : b \in bodies200 }
    \cup { [status |-> 300, body |-> b] : b \in bodies300 }

PlainBodies == {NotJson, JsonArray, Obj(Absent, Absent)}

HealthResponses == Answers(PlainBodies, {Obj(Absent, Absent)})

LogsResponses == HealthResponses

DeleteResponses == Answers({NotJson}, {NotJson})

PostResponses ==
  Answers(PlainBodies \cup { Obj(Str(i), Absent) : i \in {<<>>} \cup SessionIds },
          {Obj(Str(<<"s","1">>), Absent)})

LookupResponses ==
  Answers(PlainBodies \cup { Obj(Absent, ws) : ws \in {Str(<<>>), Num} }
                      \cup { Obj(Absent, Str(u)) : u \in DebuggerUrls },
          {Obj(Absent, Str(WsUrl(<<"h",":","1">>, <<"/","d","/","p",";","x">>, <<>>, <<>>)))})

----------------------------------------------------------------------------
(* requests *)

(* raise_for_status that lets 4xx through *)
raise_for_status_5xx(r) == 500 <= r.status /\ r.status < 600

(* Response.raise_for_status raises HTTPError for 4xx and 5xx only. *)
raise_for_status(r) == 400 <= r.status /\ r.status < 600

(* requests.get/post/delete followed by raise_for_status raises a         *)
(* RequestException.                                                      *)
RequestFails(r) == r.status = 0 \/ raise_for_status(r)

(* Response.json() raises on a body that is not JSON. *)
JsonFails(r) == r.body.kind = "text"

NoPayload == [present |-> FALSE, project_id |-> <<>>, api_key |-> <<>>]

Request(method, url, session_id, payload) ==
  [method |-> method, url |-> url, session_id |-> session_id, payload |-> payload]

----------------------------------------------------------------------------
(* Outcomes of a call: a returned value or a raised exception. *)

NoSession == [id |-> Absent, webSocketDebuggerUrl |-> None]

Return(json, flag, session) ==
  [kind |-> "return", exc |-> "", json |-> json, flag |-> flag, session |-> session]

Raise(exc) ==
  [kind |-> "raise", exc |-> exc, json |-> NoBody, flag |-> FALSE, session |-> NoSession]

NoResult ==
  [kind |-> "none", exc |-> "", json |-> NoBody, flag |-> FALSE, session |-> NoSession]

----------------------------------------------------------------------------
(* class Session *)

(* The lookup without its try/except: a RequestException escapes. *)
get_web_socket_debugger_url_uncaught(l) ==
  IF RequestFails(l) THEN [exc |-> "RequestException", ws |-> None]
  ELSE IF JsonFails(l)
       THEN [exc |-> IF json_error_is_request_exception
                     THEN "RequestException" ELSE "JSONDecodeError",
             ws |-> None]
  ELSE IF l.body.kind # "object" THEN [exc |-> "AttributeError", ws |-> None]
  ELSE LET full_ws_url == l.body.webSocketDebuggerUrl
       IN IF ~Truthy(full_ws_url) THEN [exc |-> "", ws |-> None]
          ELSE IF full_ws_url.t # "str" THEN [exc |-> "AttributeError", ws |-> None]
          ELSE [exc |-> "", ws |-> Str(urlparse(full_ws_url.v).path)]

(* Session._get_web_socket_debugger_url: the value left in                *)
(* self.webSocketDebuggerUrl and the exception that escapes, if any.      *)
(* Only requests.exceptions.RequestException is caught.                   *)
get_web_socket_debugger_url(l) ==
  IF RequestFails(l) THEN [exc |-> "", ws |-> None]
  ELSE IF JsonFails(l)
       THEN [exc |-> IF json_error_is_request_exception THEN "" ELSE "JSONDecodeError",
             ws |-> None]
  ELSE IF l.body.kind # "object" THEN [exc |-> "AttributeError", ws |-> None]
  ELSE LET full_ws_url == l.body.webSocketDebuggerUrl
       IN IF ~Truthy(full_ws_url) THEN [exc |-> "", ws |-> None]
          ELSE IF full_ws_url.t # "str" THEN [exc |-> "AttributeError", ws |-> None]
          ELSE [exc |-> "", ws |-> Str(urlparse(full_ws_url.v).path)]

LookupRequest(session_id) ==
  Request("GET", urljoin(base_url, <<"/","j","s","o","n","/","v","e","r","s","i","o","n">>),
          session_id, NoPayload)

(* A constructor that repeats the lookup once after a failed request. *)
SessionInit_retry(session_id, l) ==
  LET w == get_web_socket_debugger_url(l)
  IN [reqs |-> IF RequestFails(l)
               THEN <<LookupRequest(session_id), LookupRequest(session_id)>>
               ELSE <<LookupRequest(session_id)>>,
      exc |-> w.exc,
      session |-> [id |-> session_id, webSocketDebuggerUrl |-> w.ws]]

(* Session.__init__(session_id, browser) with the lookup answered by l. *)
SessionInit(session_id, l) ==
  LET w == get_web_socket_debugger_url(l)
  IN [reqs |-> <<LookupRequest(session_id)>>,
      exc |-> w.exc,
      session |-> [id |-> session_id, webSocketDebuggerUrl |-> w.ws]]

----------------------------------------------------------------------------
(* An operation's outcome: the requests it issued, the responses it got,  *)
(* what it returned or raised, and the Session objects alive afterwards.  *)

Outcome(rq, rs, res, heap) ==
  [reqs |-> rq, resps |-> rs, result |-> res, sessions |-> heap]

(* Session(session_id, browser) called directly. *)
NewSession(session_id, l) ==
  LET s == SessionInit(Str(session_id), l)
  IN IF s.exc = ""
     THEN Outcome(s.reqs, <<l>>, Return(NoBody, FALSE, s.session), Append(sessions, s.session))
     ELSE Outcome(s.reqs, <<l>>, Raise(s.exc), sessions)

----------------------------------------------------------------------------
(* class Sessions *)

CreateRequest(project_id) ==
  Request("POST", urljoin(base_url, <<"/","i","n","s","t","a","n","c","e">>), Absent,
          [present |-> TRUE, project_id |-> project_id, api_key |-> api_key])

(* create with its two except clauses swapped: a JSON decoding error     *)
(* that is both a RequestException and a ValueError is reported as the    *)
(* ValueError.                                                            *)
create_except_swapped(project_id, p, l) ==
  LET post == <<CreateRequest(project_id)>>
  IN IF RequestFails(p) THEN Outcome(post, <<p>>, Raise("RequestException"), sessions)
     ELSE IF JsonFails(p) THEN Outcome(post, <<p>>, Raise("ValueError"), sessions)
     ELSE IF p.body.kind # "object"
          THEN Outcome(post, <<p>>, Raise("AttributeError"), sessions)
     ELSE IF ~Truthy(p.body.session_id)
          THEN Outcome(post, <<p>>, Raise("ValueError"), sessions)
     ELSE LET s == SessionInit(p.body.session_id, l)
          IN IF s.exc = ""
             THEN Outcome(post \o s.reqs, <<p, l>>, Return(NoBody, FALSE, s.session),
                          Append(sessions, s.session))
             ELSE Outcome(post \o s.reqs, <<p, l>>,
                          Raise(IF s.exc = "JSONDecodeError" THEN "ValueError" ELSE s.exc),
                          sessions)

(* Sessions.create(project_id): the POST is answered by p and the lookup  *)
(* of the Session constructor, when it is reached, by l.  "ValueError" is *)
(* the ValueError("Invalid response from API: ...") of line 93.           *)
create(project_id, p, l) ==
  LET post == <<CreateRequest(project_id)>>
  IN IF RequestFails(p) THEN Outcome(post, <<p>>, Raise("RequestException"), sessions)
     ELSE IF JsonFails(p)
          THEN Outcome(post, <<p>>,
                       Raise(IF json_error_is_request_exception
                             THEN "RequestException" ELSE "ValueError"),
                       sessions)
     ELSE IF p.body.kind # "object"
          THEN Outcome(post, <<p>>, Raise("AttributeError"), sessions)
     ELSE IF ~Truthy(p.body.session_id)
          THEN Outcome(post, <<p>>, Raise("ValueError"), sessions)
     ELSE LET s == SessionInit(p.body.session_id, l)
          IN IF s.exc = ""
             THEN Outcome(post \o s.reqs, <<p, l>>, Return(NoBody, FALSE, s.session),
                          Append(sessions, s.session))
             ELSE Outcome(post \o s.reqs, <<p, l>>,
                          Raise(IF s.exc = "JSONDecodeError" THEN "ValueError" ELSE s.exc),
                          sessions)

----------------------------------------------------------------------------
(* class Browser *)

(* Browser.__init__: base_url.rstrip('/') *)
BrowserInit(key, url) == [api_key |-> key, base_url |-> rstrip(url, "/")]

(* A getter that keeps only the fields it knows of the parsed body. *)
GetJson_reshaped(request, r) ==
  IF RequestFails(r) THEN Outcome(<<request>>, <<r>>, Raise("RequestException"), sessions)
  ELSE IF JsonFails(r)
       THEN Outcome(<<request>>, <<r>>,
                    Raise(IF json_error_is_request_exception
                          THEN "RequestException" ELSE "JSONDecodeError"),
                    sessions)
  ELSE Outcome(<<request>>, <<r>>,
               Return(Obj(r.body.session_id, r.body.webSocketDebuggerUrl), FALSE, NoSession),
               sessions)

(* try: get; raise_for_status; return response.json()                     *)
(* except RequestException: raise RequestException(...)                   *)
GetJson(request, r) ==
  IF RequestFails(r) THEN Outcome(<<request>>, <<r>>, Raise("RequestException"), sessions)
  ELSE IF JsonFails(r)
       THEN Outcome(<<request>>, <<r>>,
                    Raise(IF json_error_is_request_exception
                          THEN "RequestException" ELSE "JSONDecodeError"),
                    sessions)
  ELSE Outcome(<<request>>, <<r>>, Return(r.body, FALSE, NoSession), sessions)

health_check(r) ==
  GetJson(Request("GET", urljoin(base_url, <<"/","h","e","a","l","t","h">>), Absent, NoPayload),
          r)

get_session_logs(session_id, r) ==
  GetJson(Request("GET", urljoin(base_url, <<"/","l","o","g","s","/">> \o session_id),
                  Absent, NoPayload),
          r)

(* A delete that also clears the debugger URL of the local Session objects *)
(* with that id.                                                          *)
delete_session_invalidates(session_id, r) ==
  LET request == Request("DELETE", urljoin(base_url, <<"/","i","n","s","t","a","n","c","e">>),
                         Str(session_id), NoPayload)
  IN IF RequestFails(r)
     THEN Outcome(<<request>>, <<r>>, Raise("RequestException"), sessions)
     ELSE Outcome(<<request>>, <<r>>, Return(NoBody, TRUE, NoSession),
                  [i \in 1..Len(sessions) |->
                     IF sessions[i].id = Str(session_id)
                     THEN [sessions[i] EXCEPT !.webSocketDebuggerUrl = None]
                     ELSE sessions[i]])

delete_session(session_id, r) ==
  LET request == Request("DELETE", urljoin(base_url, <<"/","i","n","s","t","a","n","c","e">>),
                         Str(session_id), NoPayload)
  IN IF RequestFails(r)
     THEN Outcome(<<request>>, <<r>>, Raise("RequestException"), sessions)
     ELSE Outcome(<<request>>, <<r>>, Return(NoBody, TRUE, NoSession), sessions)

----------------------------------------------------------------------------
(* The state machine: one action per public call. *)

Init ==
  /\ \E key \in ApiKeys, url \in RawBaseUrls :
       /\ api_key = BrowserInit(key, url).api_key
       /\ base_url = BrowserInit(key, url).base_url
  /\ json_error_is_request_exception \in BOOLEAN
  /\ sessions = <<>>
  /\ op = [name |-> "Browser", arg |-> <<>>]
  /\ reqs = <<>>
  /\ resps = <<>>
  /\ result = NoResult

Call(name, arg, out) ==
  /\ op' = [name |-> name, arg |-> arg]
  /\ reqs' = out.reqs
  /\ resps' = out.resps
  /\ result' = out.result
  /\ sessions' = out.sessions
  /\ UNCHANGED <<api_key, base_url, json_error_is_request_exception>>

HealthCheck ==
  \E r \in HealthResponses :
    \E out \in {health_check(r)} : Call("health_check", <<>>, out)

GetSessionLogs ==
  \E id \in SessionIds, r \in LogsResponses :
    \E out \in {get_session_logs(id, r)} : Call("get_session_logs", id, out)

DeleteSession ==
  \E id \in SessionIds, r \in DeleteResponses :
    \E out \in {delete_session(id, r)} : Call("delete_session", id, out)

(* The lookup is answered only when the constructor is reached. *)
LookupAnswers(p) ==
  IF ~RequestFails(p) /\ p.body.kind = "object" /\ Truthy(p.body.session_id)
  THEN LookupResponses ELSE {NetworkError}

Create ==
  \E project_id \in ProjectIds, p \in PostResponses :
    \E l \in LookupAnswers(p) :
      \E out \in {create(project_id, p, l)} :
        /\ Len(out.sessions) <= MaxSessions
        /\ Call("create", project_id, out)

ConstructSession ==
  \E id \in SessionIds, l \in LookupResponses :
    \E out \in {NewSession(id, l)} :
      /\ Len(out.sessions) <= MaxSessions
      /\ Call("Session", id, out)

Next == HealthCheck \/ GetSessionLogs \/ DeleteSession \/ Create \/ ConstructSession

Spec == Init /\ [][Next]_vars

----------------------------------------------------------------------------
(* Vocabulary of the properties *)

Is2xx(r) == 200 <= r.status /\ r.status < 300

Is4xx5xx(r) == 400 <= r.status /\ r.status < 600

Unreachable(r) == r.status = 0

IsJson(r) == r.body.kind \in {"array", "object"}

EndsWith(s, t) == Len(s) >= Len(t) /\ SubSeq(s, Len(s) - Len(t) + 1, Len(s)) = t

InstancePath == <<"/","i","n","s","t","a","n","c","e">>

VersionPath == <<"/","j","s","o","n","/","v","e","r","s","i","o","n">>

HealthPath == <<"/","h","e","a","l","t","h">>

LogsPath(id) == <<"/","l","o","g","s","/">> \o id

(* The path the i-th request of the last operation is meant for. *)
PathOfRequest(i) ==
  CASE op.name = "health_check" -> HealthPath
    [] op.name = "get_session_logs" -> LogsPath(op.arg)
    [] op.name = "delete_session" -> InstancePath
    [] op.name = "create" -> (IF i = 1 THEN InstancePath ELSE VersionPath)
    [] OTHER -> VersionPath

(* The last operation constructed a Session object, and the answer to its *)
(* lookup.                                                                *)
Constructing ==
  \/ op.name = "Session"
  \/ op.name = "create" /\ Len(resps) = 2

LookupAnswer == resps[Len(resps)]

NonEmptySessionId(r) ==
  r.body.kind = "object" /\ r.body.session_id.t = "str" /\ r.body.session_id.v # <<>>

RaisedTransportError == result.kind = "raise" /\ result.exc = "RequestException"

RaisedInvalidResponse == result.kind = "raise" /\ result.exc = "ValueError"

----------------------------------------------------------------------------
(* C1: Sessions.create issues exactly one POST to /instance carrying      *)
(* project_id and the client's api_key, and whenever that POST answers    *)
(* 2xx with a JSON object whose session_id is non-empty, create returns a *)
(* Session whose id is that session_id.                                   *)
C1_CreateReturnsSession ==
  op.name = "create" =>
    /\ Cardinality({i \in 1..Len(reqs) : reqs[i].method = "POST"}) = 1
    /\ reqs[1].method = "POST"
    /\ EndsWith(reqs[1].url, InstancePath)
    /\ reqs[1].payload = [present |-> TRUE, project_id |-> op.arg, api_key |-> api_key]
    /\ (Is2xx(resps[1]) /\ NonEmptySessionId(resps[1]))
         => /\ result.kind = "return"
            /\ result.session.id = resps[1].body.session_id

----------------------------------------------------------------------------
----------------------------------------------------------------------------
(* C3: Sessions.create raises the ValueError of an invalid response, not  *)
(* the transport error, whenever the 2xx JSON object of POST /instance    *)
(* omits session_id or carries an empty string for it; no Session is      *)
(* returned or constructed.                                               *)
C3_InvalidResponseError ==
  (op.name = "create" /\ Is2xx(resps[1]) /\ resps[1].body.kind = "object"
     /\ resps[1].body.session_id \in {Absent, Str(<<>>)})
    => /\ RaisedInvalidResponse
       /\ result.session = NoSession
       /\ Len(reqs) = 1

C3_Witness ==
  /\ op.name = "create"
  /\ resps[1] = [status |-> 200, body |-> Obj(Str(<<>>), Absent)]
  /\ RaisedInvalidResponse

----------------------------------------------------------------------------
----------------------------------------------------------------------------
(* C5: when the lookup answers 2xx with a non-empty webSocketDebuggerUrl, *)
(* the Session stores exactly the path component of that URL: scheme,     *)
(* host, port, query and fragment are discarded.                          *)
C5_StoresPathOnly ==
  (Constructing /\ Is2xx(LookupAnswer) /\ LookupAnswer.body.kind = "object"
     /\ LookupAnswer.body.webSocketDebuggerUrl.t = "str"
     /\ LookupAnswer.body.webSocketDebuggerUrl.v # <<>>)
    => /\ result.kind = "return"
       /\ \E n \in WsNetlocs, path \in WsPaths, q \in WsQueries, f \in WsFragments :
            /\ LookupAnswer.body.webSocketDebuggerUrl.v = WsUrl(n, path, q, f)
            /\ result.session.webSocketDebuggerUrl = Str(path)

C5_Witness ==
  /\ op.name = "create"
  /\ Len(resps) = 2
  /\ resps[2] = [status |-> 200,
                 body |-> Obj(Absent, Str(WsUrl(<<"h",":","1">>, <<"/","d","/","p",";","x">>,
                                                <<"q">>, <<"f">>)))]
  /\ result.kind = "return"
  /\ result.session.webSocketDebuggerUrl = Str(<<"/","d","/","p",";","x">>)

----------------------------------------------------------------------------
----------------------------------------------------------------------------
(* C7, as claimed: for health_check, get_session_logs and Sessions.create *)
(* a 2xx response whose body is not valid JSON makes the operation fail   *)
(* with an error distinct from the transport error and from the invalid   *)
(* response error.                                                        *)
C7_MalformedIsDistinct ==
  (op.name \in {"health_check", "get_session_logs", "create"}
     /\ Is2xx(resps[1]) /\ resps[1].body.kind = "text")
    => /\ result.kind = "raise"
       /\ result.exc \notin {"RequestException", "ValueError"}

(* C7, amended: such a response makes the operation fail without a value, *)
(* but with no error of its own: where the JSON decoding error of         *)
(* requests is a RequestException all three raise the transport error;    *)
(* otherwise Sessions.create raises the same ValueError as for a missing  *)
(* session_id, and health_check and get_session_logs let the decoder's    *)
(* error escape unwrapped.                                                *)
C7_MalformedIsNotDistinct ==
  (op.name \in {"health_check", "get_session_logs", "create"}
     /\ Is2xx(resps[1]) /\ resps[1].body.kind = "text")
    => /\ result.kind = "raise"
       /\ result.exc = (IF json_error_is_request_exception THEN "RequestException"
                        ELSE IF op.name = "create" THEN "ValueError"
                        ELSE "JSONDecodeError")

C7_Witness ==
  /\ op.name = "create"
  /\ resps[1] = [status |-> 200, body |-> NotJson]
  /\ json_error_is_request_exception
  /\ RaisedTransportError

----------------------------------------------------------------------------
(* C8, as claimed: every request goes to the normalized base URL followed *)
(* by the operation's path, also when the base URL has a path prefix.     *)
C8_UrlIsBaseUrlPlusPath ==
  \A i \in 1..Len(reqs) : reqs[i].url = base_url \o PathOfRequest(i)

(* C8, amended: every request goes to the scheme and host of the base URL *)
(* followed by the operation's path; a path prefix after the host in the  *)
(* base URL is dropped.                                                   *)
C8_UrlIsOriginPlusPath ==
  \A i \in 1..Len(reqs) :
    \E h \in Hosts, prefix \in Prefixes :
      /\ base_url = BaseUrl(h, prefix, <<>>)
      /\ reqs[i].url = BaseUrl(h, <<>>, <<>>) \o PathOfRequest(i)

C8_Witness ==
  /\ op.name = "get_session_logs"
  /\ base_url = <<"h","t","t","p","s",":","/","/","h","/","a","p","i">>
  /\ reqs[1].url = <<"h","t","t","p","s",":","/","/","h","/","l","o","g","s","/","s","2">>

----------------------------------------------------------------------------
----------------------------------------------------------------------------
====
